---- MODULE Spec2Model ----
(***************************************************************************)
(* The FDTD grid of photfdtd/fdtd/grid.py (class Grid) as a state machine. *)
(*                                                                         *)
(* Representation of the numbers of the program:                           *)
(*  - a Python value is a record [t, v]: t = "int" (v the integer),        *)
(*    t = "float" (the value v / FloatDen), t = "none" (None);             *)
(*  - a spacing is stored as the number k of cells per unit length, that   *)
(*    is the spacing 1/k, so that x / spacing = x * k is exact;            *)
(*  - courant_number is [h, rootD], the value (h/100) * rootD^(-1/2);      *)
(*  - time_step is [f, S], the value (f/100) / (c * sqrt(S));              *)
(*    physical times are floats in units of (unit length)/c;               *)
(*  - a field value is an integer of -MaxMag..MaxMag or one of PInf, NInf, *)
(*    NaN: floating point with its overflow to infinity; the positive      *)
(*    factor c*time_step of the updates is one field unit (CTimeStep).     *)
(***************************************************************************)
EXTENDS Integers, Sequences, FiniteSets, TLC

\* ---------------------------------------------------------------- bounds
FloatDen == 4        \* floats are multiples of 1/FloatDen
MaxNum == 6          \* numerators of the floats tried: -MaxNum..MaxNum
MaxMag == 3          \* largest finite field value
MaxSteps == 3        \* cap on time_steps_passed
MaxComponents == 1   \* cap on the registered components
MaxWrites == 2       \* cap on the entries of E written by the caller
MaxHooks == 3        \* cap on the components registered for the hook order

\* ------------------------------------------------------- Python values
None == [t |-> "none", v |-> 0]
PyInt(n) == [t |-> "int", v |-> n]
PyFloat(n) == [t |-> "float", v |-> n]

\* int(a / b) for b > 0: Python's int() truncates towards zero
TruncDiv(a, b) == IF a >= 0 THEN a \div b ELSE -((-a) \div b)

\* the largest r of lo..hi with r * r <= n (lo * lo <= n < (hi + 1)^2), by bisection
RECURSIVE Bisect(_, _, _)
Bisect(n, lo, hi) ==
    IF lo >= hi THEN lo
    ELSE LET mid == (lo + hi + 1) \div 2
         IN  IF mid * mid <= n THEN Bisect(n, mid, hi) ELSE Bisect(n, lo, mid - 1)
\* sqrt: the integer part of the square root of n, known to be at most hi
ISqrt(n, hi) == Bisect(n, 0, hi)

SpacingOf(self, axis) ==
    CASE axis = "x" -> self.grid_spacing_x
      [] axis = "y" -> self.grid_spacing_y
      [] axis = "z" -> self.grid_spacing_z

\* Grid._handle_distance: int(float(distance) / spacing + 0.5), ints unchanged;
\* float(distance) / spacing = (v / FloatDen) * k
HandleDistance(self, distance, axis) ==
    IF distance.t # "int"
    THEN TruncDiv(2 * distance.v * SpacingOf(self, axis) + FloatDen, 2 * FloatDen)
    ELSE distance.v

\* float(time) / time_step for a float time = n/FloatDen >= 0 (in units of
\* length/c) is n * 100 * sqrt(S) / (FloatDen * f); TimeQuotient(self, n, m) is
\* the floor of m times the numerator, the denominator being TimeQuotientDen
TimeQuotient(self, n, m) ==
    ISqrt(m * m * n * n * 10000 * self.time_step.S, m * n * 100 * (self.time_step.S + 1))
TimeQuotientDen(self) == FloatDen * self.time_step.f

\* Grid._handle_time: int(float(time) / time_step + 0.5), ints unchanged
HandleTime(self, time) ==
    IF time.t # "int"
    THEN (TimeQuotient(self, time.v, 2) + TimeQuotientDen(self))
             \div (2 * TimeQuotientDen(self))
    ELSE time.v

\* Grid._handle_tuple: the shape as three ints, or ValueError
HandleTuple(self, shape) ==
    IF Len(shape) # 3
    THEN [err |-> "ValueError", val |-> <<0, 0, 0>>]
    ELSE [err |-> "none",
          val |-> <<HandleDistance(self, shape[1], "x"),
                    HandleDistance(self, shape[2], "y"),
                    HandleDistance(self, shape[3], "z")>>]

\* one component of a slice: floats become indices, ints and None pass
SliceComponent(self, c, axis) ==
    IF c.t = "float" THEN PyInt(HandleDistance(self, c, axis)) ELSE c

\* mutant: a float stop is passed on unconverted
HandleSliceKeepStop(self, s, axis) ==
    [t |-> "slice", start |-> SliceComponent(self, s.start, axis),
     stop |-> s.stop, step |-> SliceComponent(self, s.step, axis)]

\* Grid._handle_slice
HandleSlice(self, s, axis) ==
    [t |-> "slice", start |-> SliceComponent(self, s.start, axis),
     stop |-> SliceComponent(self, s.stop, axis),
     step |-> SliceComponent(self, s.step, axis)]

\* Grid._handle_single_key: len(key) succeeds for a list; a slice goes to
\* _handle_slice; any other key becomes a list of one index
HandleSingleKey(self, key, axis) ==
    IF key.t = "list"
    THEN [t |-> "list",
          items |-> [i \in 1..Len(key.items) |-> HandleDistance(self, key.items[i], axis)]]
    ELSE IF key.t = "slice"
         THEN HandleSlice(self, key, axis)
         ELSE [t |-> "list", items |-> <<HandleDistance(self, key, axis)>>]

PySlice(a, b, c) == [t |-> "slice", start |-> a, stop |-> b, step |-> c]
PyList(s) == [t |-> "list", items |-> s]
SliceAll == PySlice(None, None, None)

\* --------------------------------------------------------- field values
PInf == MaxMag + 1
NInf == -(MaxMag + 1)
NaN == MaxMag + 2
Infinite(a) == a = PInf \/ a = NInf
Round(n) == IF n > MaxMag THEN PInf ELSE IF n < -MaxMag THEN NInf ELSE n
FNeg(a) == IF a = NaN THEN NaN ELSE -a
FAdd(a, b) ==
    IF a = NaN \/ b = NaN THEN NaN
    ELSE IF Infinite(a) /\ Infinite(b) THEN (IF a = b THEN a ELSE NaN)
    ELSE IF Infinite(a) THEN a
    ELSE IF Infinite(b) THEN b
    ELSE Round(a + b)
FSub(a, b) == FAdd(a, FNeg(b))
FMul(a, b) ==
    IF a = NaN \/ b = NaN THEN NaN
    ELSE IF Infinite(a) \/ Infinite(b)
         THEN (IF a = 0 \/ b = 0 THEN NaN
               ELSE IF (a > 0) = (b > 0) THEN PInf ELSE NInf)
    ELSE Round(a * b)

Cells(nx, ny, nz) == (0..(nx - 1)) \X (0..(ny - 1)) \X (0..(nz - 1))
Entries(nx, ny, nz) == (0..(nx - 1)) \X (0..(ny - 1)) \X (0..(nz - 1)) \X (0..2)
\* bd.zeros / bd.ones of shape (nx, ny, nz, 3), times v
Full(nx, ny, nz, v) == [e \in Entries(nx, ny, nz) |-> v]
\* the value of a set of one element: binds an intermediate result
Only(S) == CHOOSE x \in S : TRUE

\* ------------------------------------------------------------ state
VARIABLES
    exists,               \* a Grid object has been constructed
    grid_spacing, grid_spacing_x, grid_spacing_y, grid_spacing_z,
    Nx, Ny, Nz, D, courant_number, time_step,
    E, H, dtype,          \* the fields and their dtype ("float" or "complex")
    inverse_permittivity, inverse_permeability, priority,
    time_steps_passed,
    sources, boundaries, detectors, objects,
    folder,               \* "None" or a path
    animate,              \* "unset" (no such attribute), "True" or "False"
    folder_frames,        \* "unset" or the frames folder
    full_sim_name,        \* "unset" or the name save_simulation made
    total_time,           \* -1 (unset) or the step count of the last run
    Epol,                 \* -1 (unset) or the polarization save_frame draws
    frames,               \* the frames written: time_steps_passed of each
    cwd,                  \* the process' working directory
    trace,                \* the hook calls of the last step(), in order
    stepCalls,            \* step() calls since construction or the last reset()
    last                  \* the last call: [op, arg, err, ret]

objVars == <<grid_spacing, grid_spacing_x, grid_spacing_y, grid_spacing_z,
             Nx, Ny, Nz, D, courant_number, time_step, E, H, dtype,
             inverse_permittivity, inverse_permeability, priority,
             time_steps_passed, sources, boundaries, detectors, objects,
             folder, animate, folder_frames, full_sim_name, total_time, Epol>>
vars == <<exists, objVars, frames, cwd, trace, stepCalls, last>>

\* the attributes of the Grid object as a record
Self ==
    [grid_spacing |-> grid_spacing, grid_spacing_x |-> grid_spacing_x,
     grid_spacing_y |-> grid_spacing_y, grid_spacing_z |-> grid_spacing_z,
     Nx |-> Nx, Ny |-> Ny, Nz |-> Nz, D |-> D,
     courant_number |-> courant_number, time_step |-> time_step,
     E |-> E, H |-> H, dtype |-> dtype,
     inverse_permittivity |-> inverse_permittivity,
     inverse_permeability |-> inverse_permeability, priority |-> priority,
     time_steps_passed |-> time_steps_passed,
     sources |-> sources, boundaries |-> boundaries,
     detectors |-> detectors, objects |-> objects,
     folder |-> folder, animate |-> animate, folder_frames |-> folder_frames,
     full_sim_name |-> full_sim_name, total_time |-> total_time, Epol |-> Epol]

\* the object's attributes become those of the record g
Assign(g) ==
    /\ grid_spacing' = g.grid_spacing
    /\ grid_spacing_x' = g.grid_spacing_x
    /\ grid_spacing_y' = g.grid_spacing_y
    /\ grid_spacing_z' = g.grid_spacing_z
    /\ Nx' = g.Nx /\ Ny' = g.Ny /\ Nz' = g.Nz /\ D' = g.D
    /\ courant_number' = g.courant_number
    /\ time_step' = g.time_step
    /\ E' = g.E /\ H' = g.H /\ dtype' = g.dtype
    /\ inverse_permittivity' = g.inverse_permittivity
    /\ inverse_permeability' = g.inverse_permeability
    /\ priority' = g.priority
    /\ time_steps_passed' = g.time_steps_passed
    /\ sources' = g.sources /\ boundaries' = g.boundaries
    /\ detectors' = g.detectors /\ objects' = g.objects
    /\ folder' = g.folder /\ animate' = g.animate
    /\ folder_frames' = g.folder_frames
    /\ full_sim_name' = g.full_sim_name
    /\ total_time' = g.total_time /\ Epol' = g.Epol

\* the object's attributes are those of the record g
Start(g) ==
    /\ grid_spacing = g.grid_spacing
    /\ grid_spacing_x = g.grid_spacing_x
    /\ grid_spacing_y = g.grid_spacing_y
    /\ grid_spacing_z = g.grid_spacing_z
    /\ Nx = g.Nx /\ Ny = g.Ny /\ Nz = g.Nz /\ D = g.D
    /\ courant_number = g.courant_number
    /\ time_step = g.time_step
    /\ E = g.E /\ H = g.H /\ dtype = g.dtype
    /\ inverse_permittivity = g.inverse_permittivity
    /\ inverse_permeability = g.inverse_permeability
    /\ priority = g.priority
    /\ time_steps_passed = g.time_steps_passed
    /\ sources = g.sources /\ boundaries = g.boundaries
    /\ detectors = g.detectors /\ objects = g.objects
    /\ folder = g.folder /\ animate = g.animate
    /\ folder_frames = g.folder_frames
    /\ full_sim_name = g.full_sim_name
    /\ total_time = g.total_time /\ Epol = g.Epol

\* no object: what the attributes read before a Grid exists
NoGrid ==
    [grid_spacing |-> 0, grid_spacing_x |-> 0, grid_spacing_y |-> 0,
     grid_spacing_z |-> 0, Nx |-> 0, Ny |-> 0, Nz |-> 0, D |-> 0,
     courant_number |-> [h |-> 0, rootD |-> 1], time_step |-> [S |-> 0, f |-> 0],
     E |-> <<>>, H |-> <<>>, dtype |-> "float",
     inverse_permittivity |-> <<>>, inverse_permeability |-> <<>>,
     priority |-> <<>>, time_steps_passed |-> 0,
     sources |-> <<>>, boundaries |-> <<>>, detectors |-> <<>>, objects |-> <<>>,
     folder |-> "None", animate |-> "unset", folder_frames |-> "unset",
     full_sim_name |-> "unset", total_time |-> -1, Epol |-> -1]

\* ------------------------------------------------------ construction
Spacing(k) == [t |-> "spacing", v |-> k]      \* the float 1/k
Courant(h) == [t |-> "courant", v |-> h]      \* the float h/100
Active(n) == IF n > 1 THEN 1 ELSE 0           \* int(n > 1)

\* courant_number > float(D) ** (-0.5), for D >= 1
CourantTooHigh(h, d) == h > 0 /\ h * h * d > 10000

\* Grid.__init__(shape, grid_spacing, grid_spacing_x, grid_spacing_y,
\* grid_spacing_z, permittivity, permeability, courant_number, folder):
\* [err, g], g the attributes of the new object when err = "none".
\* permittivity and permeability are the scalars 1/n, given as n.
GridInit(a) ==
    LET gs == a.grid_spacing
        gx == IF a.grid_spacing_x = None THEN gs ELSE a.grid_spacing_x.v
        gy == IF a.grid_spacing_y = None THEN gs ELSE a.grid_spacing_y.v
        gz == IF a.grid_spacing_z = None THEN gs ELSE a.grid_spacing_z.v
        s0 == [NoGrid EXCEPT !.grid_spacing = gs, !.grid_spacing_x = gx,
                             !.grid_spacing_y = gy, !.grid_spacing_z = gz]
        tup == HandleTuple(s0, a.shape)
        nx == tup.val[1]
        ny == tup.val[2]
        nz == tup.val[3]
        d == Active(nx) + Active(ny) + Active(nz)
        fail(e) == [err |-> e, g |-> NoGrid]
    IN  IF tup.err # "none" THEN fail(tup.err)
        \* float(self.D) ** (-0.5) with D = 0
        ELSE IF d = 0 THEN fail("ZeroDivisionError")
        ELSE IF a.courant_number # None /\ CourantTooHigh(a.courant_number.v, d)
             THEN fail("ValueError")
        \* the time step reads the parameters grid_spacing_x, _y, _z: None ** 2
        ELSE IF None \in {a.grid_spacing_x, a.grid_spacing_y, a.grid_spacing_z}
             THEN fail("TypeError")
        ELSE [err |-> "none",
              g |-> [s0 EXCEPT
                  !.Nx = nx, !.Ny = ny, !.Nz = nz, !.D = d,
                  !.courant_number =
                      IF a.courant_number = None
                      THEN [h |-> 99, rootD |-> d]
                      ELSE [h |-> a.courant_number.v, rootD |-> 1],
                  !.time_step =
                      [S |-> Active(nx) * a.grid_spacing_x.v * a.grid_spacing_x.v
                           + Active(ny) * a.grid_spacing_y.v * a.grid_spacing_y.v
                           + Active(nz) * a.grid_spacing_z.v * a.grid_spacing_z.v,
                       f |-> 99],
                  !.E = Full(nx, ny, nz, 0),
                  !.H = Full(nx, ny, nz, 0),
                  !.inverse_permittivity = Full(nx, ny, nz, a.permittivity),
                  !.inverse_permeability = Full(nx, ny, nz, a.permeability),
                  !.priority = [c \in Cells(nx, ny, nz) |-> 0],
                  !.time_steps_passed = 0,
                  !.folder = a.folder]]

NoCall == [err |-> "none", op |-> "none", arg |-> 0, ret |-> 0]
Call(op, arg, err, ret) == [err |-> err, op |-> op, arg |-> arg, ret |-> ret]

\* the arguments tried
NewShapes ==
    {<<PyInt(1), PyInt(1), PyInt(1)>>, <<PyInt(1), PyInt(2), PyInt(2)>>,
     <<PyInt(3), PyInt(2), PyInt(1)>>, <<PyInt(2), PyInt(2), PyInt(2)>>,
     <<PyInt(3), PyInt(1)>>, <<PyFloat(6), PyInt(1), PyInt(1)>>}
NewSpacings == {None, Spacing(1), Spacing(2)}
NewCourants == {None, Courant(50), Courant(58), Courant(71), Courant(100), Courant(101)}
DefaultGridSpacing == 1     \* grid_spacing = 155e-9, the unit of length
NewArgs ==
    [grid_spacing_x : NewSpacings, grid_spacing_y : NewSpacings,
     grid_spacing_z : NewSpacings, shape : NewShapes,
     grid_spacing : {DefaultGridSpacing}, courant_number : NewCourants,
     folder : {"None"}, permittivity : {1}, permeability : {1}]

\* before any call: no object
InitNew ==
    /\ exists = FALSE
    /\ Start(NoGrid)
    /\ frames = <<>> /\ cwd = "start" /\ trace = <<>> /\ stepCalls = 0
    /\ last = NoCall

\* grid = Grid(...)
Construct(a) ==
    /\ ~exists /\ last.op = "none"
    /\ \E r \in {GridInit(a)} :
           /\ exists' = (r.err = "none")
           /\ Assign(r.g)
           /\ last' = Call("__init__", a, r.err, 0)
    /\ UNCHANGED <<frames, cwd, trace, stepCalls>>

NextNew == \E a \in NewArgs : Construct(a)
SpecNew == InitNew /\ [][NextNew]_vars

\* ------------------------------------------------------- curl operators
\* the factor const.c * self.time_step of the updates, in field units
CTimeStep == 1

At(F, i, j, k, p) == F[<<i, j, k, p>>]
\* F[.. 1: ..] - F[.. :-1 ..] along an axis for polarization p, at the cell
\* holding the larger index (backward) or the smaller one (forward)
BackX(F, i, j, k, p) == FSub(At(F, i, j, k, p), At(F, i - 1, j, k, p))
BackY(F, i, j, k, p) == FSub(At(F, i, j, k, p), At(F, i, j - 1, k, p))
BackZ(F, i, j, k, p) == FSub(At(F, i, j, k, p), At(F, i, j, k - 1, p))
FwdX(F, i, j, k, p) == FSub(At(F, i + 1, j, k, p), At(F, i, j, k, p))
FwdY(F, i, j, k, p) == FSub(At(F, i, j + 1, k, p), At(F, i, j, k, p))
FwdZ(F, i, j, k, p) == FSub(At(F, i, j, k + 1, p), At(F, i, j, k, p))

\* curl[slice] += a, then curl[slice] -= b, on an entry that starts at 0;
\* ina, inb: the entry lies in the slice written
PlusMinus(ina, a, inb, b) ==
    LET c1 == IF ina THEN FAdd(0, a) ELSE 0
    IN  IF inb THEN FSub(c1, b) ELSE c1

\* mutant: the forward differences of curl_E wrap around to index 0
CurlEWrap(self, F) ==
    [e \in Entries(self.Nx, self.Ny, self.Nz) |->
        LET i == e[1]
            j == e[2]
            k == e[3]
            wx(p) == FSub(At(F, (i + 1) % self.Nx, j, k, p), At(F, i, j, k, p))
            wy(p) == FSub(At(F, i, (j + 1) % self.Ny, k, p), At(F, i, j, k, p))
            wz(p) == FSub(At(F, i, j, (k + 1) % self.Nz, p), At(F, i, j, k, p))
        IN  CASE e[4] = 0 -> PlusMinus(TRUE, wy(2), TRUE, wz(1))
              [] e[4] = 1 -> PlusMinus(TRUE, wz(0), TRUE, wx(2))
              [] e[4] = 2 -> PlusMinus(TRUE, wx(1), TRUE, wy(0))]

\* Grid.curl_E: forward differences, the last layer of an axis not written
CurlE(self, F) ==
    [e \in Entries(self.Nx, self.Ny, self.Nz) |->
        LET i == e[1]
            j == e[2]
            k == e[3]
            inx == i < self.Nx - 1
            iny == j < self.Ny - 1
            inz == k < self.Nz - 1
        IN  CASE e[4] = 0 ->
                   PlusMinus(iny, FwdY(F, i, j, k, 2), inz, FwdZ(F, i, j, k, 1))
              [] e[4] = 1 ->
                   PlusMinus(inz, FwdZ(F, i, j, k, 0), inx, FwdX(F, i, j, k, 2))
              [] e[4] = 2 ->
                   PlusMinus(inx, FwdX(F, i, j, k, 1), iny, FwdY(F, i, j, k, 0))]

\* mutant: the curl of E taken with backward differences
CurlEBackward(self, F) ==
    [e \in Entries(self.Nx, self.Ny, self.Nz) |->
        LET i == e[1]
            j == e[2]
            k == e[3]
            inx == i >= 1
            iny == j >= 1
            inz == k >= 1
            dx(p) == FMul(BackX(F, i, j, k, p), self.grid_spacing_x)
            dy(p) == FMul(BackY(F, i, j, k, p), self.grid_spacing_y)
            dz(p) == FMul(BackZ(F, i, j, k, p), self.grid_spacing_z)
        IN  CASE e[4] = 0 -> PlusMinus(iny, dy(2), inz, dz(1))
              [] e[4] = 1 -> PlusMinus(inz, dz(0), inx, dx(2))
              [] e[4] = 2 -> PlusMinus(inx, dx(1), iny, dy(0))]

\* Grid.curl_E_with_nonuniform_grid: each difference divided by its spacing
CurlENonuniform(self, F) ==
    [e \in Entries(self.Nx, self.Ny, self.Nz) |->
        LET i == e[1]
            j == e[2]
            k == e[3]
            inx == i < self.Nx - 1
            iny == j < self.Ny - 1
            inz == k < self.Nz - 1
            dx(p) == FMul(FwdX(F, i, j, k, p), self.grid_spacing_x)
            dy(p) == FMul(FwdY(F, i, j, k, p), self.grid_spacing_y)
            dz(p) == FMul(FwdZ(F, i, j, k, p), self.grid_spacing_z)
        IN  CASE e[4] = 0 -> PlusMinus(iny, dy(2), inz, dz(1))
              [] e[4] = 1 -> PlusMinus(inz, dz(0), inx, dx(2))
              [] e[4] = 2 -> PlusMinus(inx, dx(1), iny, dy(0))]

\* Grid.curl_H: backward differences, layer 0 of an axis not written
CurlH(self, F) ==
    [e \in Entries(self.Nx, self.Ny, self.Nz) |->
        LET i == e[1]
            j == e[2]
            k == e[3]
            inx == i >= 1
            iny == j >= 1
            inz == k >= 1
        IN  CASE e[4] = 0 ->
                   PlusMinus(iny, BackY(F, i, j, k, 2), inz, BackZ(F, i, j, k, 1))
              [] e[4] = 1 ->
                   PlusMinus(inz, BackZ(F, i, j, k, 0), inx, BackX(F, i, j, k, 2))
              [] e[4] = 2 ->
                   PlusMinus(inx, BackX(F, i, j, k, 1), iny, BackY(F, i, j, k, 0))]

\* mutant: the curl of H without the division by the spacings
CurlHUnscaled(self, F) ==
    [e \in Entries(self.Nx, self.Ny, self.Nz) |->
        LET i == e[1]
            j == e[2]
            k == e[3]
            inx == i >= 1
            iny == j >= 1
            inz == k >= 1
        IN  CASE e[4] = 0 ->
                   PlusMinus(iny, BackY(F, i, j, k, 2), inz, BackZ(F, i, j, k, 1))
              [] e[4] = 1 ->
                   PlusMinus(inz, BackZ(F, i, j, k, 0), inx, BackX(F, i, j, k, 2))
              [] e[4] = 2 ->
                   PlusMinus(inx, BackX(F, i, j, k, 1), iny, BackY(F, i, j, k, 0))]

\* Grid.curl_H_with_nonuniform_grid
CurlHNonuniform(self, F) ==
    [e \in Entries(self.Nx, self.Ny, self.Nz) |->
        LET i == e[1]
            j == e[2]
            k == e[3]
            inx == i >= 1
            iny == j >= 1
            inz == k >= 1
            dx(p) == FMul(BackX(F, i, j, k, p), self.grid_spacing_x)
            dy(p) == FMul(BackY(F, i, j, k, p), self.grid_spacing_y)
            dz(p) == FMul(BackZ(F, i, j, k, p), self.grid_spacing_z)
        IN  CASE e[4] = 0 -> PlusMinus(iny, dy(2), inz, dz(1))
              [] e[4] = 1 -> PlusMinus(inz, dz(0), inx, dx(2))
              [] e[4] = 2 -> PlusMinus(inx, dx(1), iny, dy(0))]

\* ------------------------------------------------------------ components
\* The sources, boundaries, detectors and objects are not code of grid.py:
\* their hooks are modelled from the specification (sections 4.3, 4.5, 4.6).
\*   source:   injects ampE (update_E) and ampH (update_H) additively on
\*             polarization pol over its region;
\*   boundary: periodic along x: update_E copies the last x layer of E onto
\*             layer 0, update_H copies layer 0 of H onto the last layer;
\*   detector: reads only;
\*   object:   stamps prio into priority and inv into inverse_permittivity
\*             over its region where prio is not below the cell's priority.
Component(id, kind, pol, ampE, ampH, prio, inv) ==
    [id |-> id, kind |-> kind, pol |-> pol, ampE |-> ampE, ampH |-> ampH,
     prio |-> prio, inv |-> inv]
Components ==
    {Component("srcZ", "source", 2, 1, 0, 0, 1),
     Component("srcY", "source", 1, 2, 1, 0, 1),
     Component("pbX", "boundary", 0, 0, 0, 0, 1),
     Component("det", "detector", 0, 0, 0, 0, 1),
     Component("obj", "object", 0, 0, 0, 1, 2)}

\* the indices of 0..n-1 a normalized key selects (numpy indexing)
Wrap(v, n) == IF v < 0 THEN (IF v + n < 0 THEN 0 ELSE v + n) ELSE (IF v > n THEN n ELSE v)
KeyIndices(key, n) ==
    IF key.t = "list"
    THEN {Wrap(key.items[q], n) : q \in 1..Len(key.items)} \cap (0..(n - 1))
    ELSE LET step == IF key.step = None THEN 1 ELSE key.step.v
             lo == IF key.start = None THEN 0 ELSE Wrap(key.start.v, n)
             hi == IF key.stop = None THEN n ELSE Wrap(key.stop.v, n)
         IN  IF step < 1 THEN {}
             ELSE {q \in 0..(n - 1) : lo <= q /\ q < hi /\ (q - lo) % step = 0}
InRegion(self, r, e) ==
    /\ e[1] \in KeyIndices(r.x, self.Nx)
    /\ e[2] \in KeyIndices(r.y, self.Ny)
    /\ e[3] \in KeyIndices(r.z, self.Nz)

\* component._register_grid(grid, x, y, z)
Register(self, c, x, y, z) ==
    LET r == [c |-> c, x |-> x, y |-> y, z |-> z]
    IN  CASE c.kind = "source" -> [self EXCEPT !.sources = Append(@, r)]
          [] c.kind = "boundary" -> [self EXCEPT !.boundaries = Append(@, r)]
          [] c.kind = "detector" -> [self EXCEPT !.detectors = Append(@, r)]
          [] c.kind = "object" ->
               [self EXCEPT
                   !.objects = Append(@, r),
                   !.priority =
                       [cell \in DOMAIN @ |->
                           IF InRegion(self, r, cell) /\ c.prio >= @[cell]
                           THEN c.prio ELSE @[cell]],
                   !.inverse_permittivity =
                       [e \in DOMAIN @ |->
                           IF InRegion(self, r, e)
                              /\ c.prio >= self.priority[<<e[1], e[2], e[3]>>]
                           THEN c.inv ELSE @[e]]]

\* source r's update_E / update_H hook on the field F
InjectOne(self, F, field, r) ==
    [e \in DOMAIN F |->
        IF InRegion(self, r, e) /\ e[4] = r.c.pol
        THEN FAdd(F[e], IF field = "E" THEN r.c.ampE ELSE r.c.ampH)
        ELSE F[e]]

\* F after the first n sources' injection hooks, in registration order
RECURSIVE Inject(_, _, _, _)
Inject(self, F, field, n) ==
    IF n = 0 THEN F
    ELSE InjectOne(self, Inject(self, F, field, n - 1), field, self.sources[n])

\* a boundary's update_E / update_H hook on the field F
BoundOne(self, F, field) ==
    [e \in DOMAIN F |->
        IF field = "E" /\ e[1] = 0
        THEN F[<<self.Nx - 1, e[2], e[3], e[4]>>]
        ELSE IF field = "H" /\ e[1] = self.Nx - 1
             THEN F[<<0, e[2], e[3], e[4]>>]
             ELSE F[e]]

\* F after the first n boundaries' update_E / update_H hooks
RECURSIVE Bound(_, _, _, _)
Bound(self, F, field, n) ==
    IF n = 0 THEN F
    ELSE BoundOne(self, Bound(self, F, field, n - 1), field)

\* the calls of one hook on every component of a collection, in order
Hooks(coll, hook) == [q \in 1..Len(coll) |-> <<hook, coll[q].c.id>>]

\* -------------------------------------------------------------- stepping
\* A call in progress: the object g, the frames on disk, the hook calls of
\* the step, the error raised ("none": none) and the step() calls made.
Machine(g, fr, n) == [g |-> g, frames |-> fr, trace |-> <<>>, err |-> "none", calls |-> n]
Raise(m, e) == [m EXCEPT !.err = e]

\* self.E += const.c * self.time_step * self.inverse_permittivity * curl
AddCurl(g, curl) ==
    [e \in DOMAIN g.E |->
        FAdd(g.E[e], FMul(FMul(CTimeStep, g.inverse_permittivity[e]), curl[e]))]

\* self.H -= const.c * self.time_step * self.inverse_permeability * curl
SubCurl(g, curl) ==
    [e \in DOMAIN g.H |->
        FSub(g.H[e], FMul(FMul(CTimeStep, g.inverse_permeability[e]), curl[e]))]

\* Grid.update_E on the object g: the new E
UpdateE(g) ==
    Inject(g, Bound(g, AddCurl(g, CurlHNonuniform(g, g.H)), "E", Len(g.boundaries)),
           "E", Len(g.sources))
TraceE(g) ==
    Hooks(g.boundaries, "update_phi_E") \o <<<<"E += curl_H(H)", "grid">>>>
        \o Hooks(g.boundaries, "update_E") \o Hooks(g.sources, "update_E")
        \o Hooks(g.detectors, "detect_E")

\* Grid.update_H on the object g: the new H
UpdateH(g) ==
    Inject(g, Bound(g, SubCurl(g, CurlENonuniform(g, g.E)), "H", Len(g.boundaries)),
           "H", Len(g.sources))
TraceH(g) ==
    Hooks(g.boundaries, "update_phi_H") \o <<<<"H -= curl_E(E)", "grid">>>>
        \o Hooks(g.boundaries, "update_H") \o Hooks(g.sources, "update_H")
        \o Hooks(g.detectors, "detect_H")

\* Grid.save_frame; renderOk: drawing and writing the picture succeed
SaveFrame(m, renderOk) ==
    IF Len(m.g.sources) = 0 THEN Raise(m, "IndexError: sources[0]")
    ELSE IF m.g.folder_frames = "unset"
         THEN [m EXCEPT !.g.Epol = m.g.sources[1].c.pol,
                        !.err = "AttributeError: folder_frames"]
    ELSE IF ~renderOk
         THEN [m EXCEPT !.g.Epol = m.g.sources[1].c.pol, !.err = "savefig failed"]
    ELSE [m EXCEPT !.g.Epol = m.g.sources[1].c.pol,
                   !.frames = Append(@, m.g.time_steps_passed),
                   !.trace = Append(@, <<"save_frame", "grid">>)]

\* mutant: update_H is called before update_E
UpdatesHFirst(m) ==
    Only({[m EXCEPT !.g = [g EXCEPT !.E = UpdateE(g)],
                    !.trace = TraceH(m.g) \o TraceE(g),
                    !.calls = @ + 1] :
          g \in {[m.g EXCEPT !.H = UpdateH(m.g)]}})

\* the calls self.update_E() and self.update_H() of Grid.step
Updates(m) ==
    Only({[m EXCEPT !.g = [g EXCEPT !.H = UpdateH(g)],
                    !.trace = TraceE(g) \o TraceH(g),
                    !.calls = @ + 1] :
          g \in {[m.g EXCEPT !.E = UpdateE(m.g)]}})

\* self.time_steps_passed += 1 unless the frame capture has raised
Count(m) ==
    IF m.err # "none" THEN m
    ELSE [m EXCEPT !.g.time_steps_passed = @ + 1,
                   !.trace = Append(@, <<"time_steps_passed += 1", "grid">>)]

\* mutant: the counter is incremented before the frame is considered
AdvanceCountFirst(m, interval, renderOk) ==
    IF m.g.animate = "unset" THEN Raise(m, "AttributeError: animate")
    ELSE IF m.g.animate = "True" /\ (m.g.time_steps_passed + 1) % interval = 0
         THEN SaveFrame(Count(m), renderOk)
         ELSE Count(m)

\* the rest of Grid.step: the frame, then the counter
Advance(m, interval, renderOk) ==
    IF m.g.animate = "unset" THEN Raise(m, "AttributeError: animate")
    ELSE IF m.g.animate = "True" /\ m.g.time_steps_passed % interval = 0
         THEN Count(SaveFrame(m, renderOk))
         ELSE Count(m)

\* Grid.step
DoStep(m, interval, renderOk) == Advance(Updates(m), interval, renderOk)

\* one more self.step(interval=interval) of the loop of Grid.run
StepOn(m, interval, renderOk) ==
    IF m.err # "none" THEN m ELSE DoStep(m, interval, renderOk)

\* for _ in time: self.step(interval=interval)
RECURSIVE Loop(_, _, _, _)
Loop(m, n, interval, renderOk) ==
    IF n <= 0 THEN m
    ELSE Only({StepOn(q, interval, renderOk) :
               q \in {Loop(m, n - 1, interval, renderOk)}})

\* int(total_time) of Grid.run, after total_time /= self.time_step for a float
RunSteps(self, tt) ==
    IF tt.t = "float"
    THEN TimeQuotient(self, tt.v, 1) \div TimeQuotientDen(self)
    ELSE tt.v

\* Grid.run, from the line if self.animate on; n = self.total_time
RunFrom(m, n, interval, renderOk) ==
    IF m.g.animate = "unset" THEN Raise(m, "AttributeError: animate")
    ELSE IF m.g.animate = "True" /\ m.g.folder = "None"
         THEN Raise(m, "TypeError: folder + '/frames'")
    ELSE IF m.g.animate = "True"
         THEN Loop([m EXCEPT !.frames = <<>>, !.g.folder_frames = "frames"],
                   n, interval, renderOk)
         ELSE Loop(m, n, interval, renderOk)

\* Grid.run
DoRun(m, tt, interval, renderOk) ==
    IF tt = None THEN Raise(m, "TypeError: int(None)")
    ELSE RunFrom([m EXCEPT !.g.total_time = RunSteps(m.g, tt)],
                 RunSteps(m.g, tt), interval, renderOk)

\* ------------------------------------------------------ other methods
\* Grid.reset: H *= 0.0, E *= 0.0, time_steps_passed *= 0
DoReset(g) ==
    [g EXCEPT !.H = [e \in DOMAIN @ |-> FMul(@[e], 0)],
              !.E = [e \in DOMAIN @ |-> FMul(@[e], 0)],
              !.time_steps_passed = @ * 0]

\* Grid.promote_dtypes_to_complex: astype keeps every value
DoPromote(g) == [g EXCEPT !.dtype = "complex"]

\* mutant: a key of more than 3 axis keys is cut to its first three
DoSetItemCut(g, key, c) ==
    LET ks == key.keys
        x == ks[1]
        y == IF Len(ks) >= 2 THEN ks[2] ELSE SliceAll
        z == IF Len(ks) >= 3 THEN ks[3] ELSE SliceAll
    IN  IF key.tuple /\ Len(ks) = 0
        THEN [err |-> "KeyError", g |-> g]
        ELSE [err |-> "none",
              g |-> Register(g, c, HandleSingleKey(g, x, "x"),
                             HandleSingleKey(g, y, "y"), HandleSingleKey(g, z, "z"))]

\* Grid.__setitem__(key, attr); key = [tuple, keys]: a tuple of axis keys, or
\* (tuple = FALSE) the single key keys[1]
DoSetItem(g, key, c) ==
    LET ks == key.keys
        x == ks[1]
        y == IF key.tuple /\ Len(ks) >= 2 THEN ks[2] ELSE SliceAll
        z == IF key.tuple /\ Len(ks) >= 3 THEN ks[3] ELSE SliceAll
    IN  IF key.tuple /\ Len(ks) \notin {1, 2, 3}
        THEN [err |-> "KeyError", g |-> g]
        ELSE [err |-> "none",
              g |-> Register(g, c, HandleSingleKey(g, x, "x"),
                             HandleSingleKey(g, y, "y"), HandleSingleKey(g, z, "z"))]

\* Grid.save_simulation
DoSaveSimulation(g) == [g EXCEPT !.folder = "fdtd_output", !.full_sim_name = "set"]

\* Grid.save_data: raises with no folder, else writes the detectors' readings
SaveDataErr(g) == IF g.folder = "None" THEN "Exception: save location" ELSE "none"

\* Grid.generate_video(delete_frames): [err, cwd, frames]; ffmpegOk: the
\* encoder runs and succeeds
DoGenerateVideo(g, fr, dir, delete_frames, ffmpegOk) ==
    IF g.folder = "None"
    THEN [err |-> "TypeError: path.join(None, 'frames')", cwd |-> dir, frames |-> fr]
    ELSE IF g.folder_frames = "unset"
         THEN [err |-> "FileNotFoundError: chdir", cwd |-> dir, frames |-> fr]
    ELSE IF g.full_sim_name = "unset"
         THEN [err |-> "AttributeError: full_sim_name", cwd |-> "frames", frames |-> fr]
    ELSE IF ~ffmpegOk
         THEN [err |-> "TypeError: CalledProcessError()", cwd |-> "frames", frames |-> fr]
    ELSE [err |-> "none", cwd |-> dir,
          frames |-> IF delete_frames THEN <<>> ELSE fr]

\* --------------------------------------------------------- the lifecycle
DefaultInterval == 100
Intervals == {2, DefaultInterval}
Times == {None, PyInt(2), PyFloat(2), PyFloat(3), PyFloat(5)}
\* grid[key] = component, as tried: <<key, component id>>
SrcAt1 == <<[keys |-> <<PyInt(1)>>, tuple |-> FALSE], "srcZ">>
Placements ==
    {SrcAt1,
     <<[keys |-> <<PyInt(2), SliceAll, SliceAll>>, tuple |-> TRUE], "srcZ">>,
     <<[keys |-> <<PyFloat(5), PyList(<<PyInt(0)>>)>>, tuple |-> TRUE], "srcY">>,
     <<[keys |-> <<SliceAll>>, tuple |-> TRUE], "pbX">>,
     <<[keys |-> <<PyInt(0), PyInt(1)>>, tuple |-> TRUE], "det">>,
     <<[keys |-> <<PySlice(PyInt(1), None, None), PyInt(0), PyInt(0)>>, tuple |-> TRUE], "obj">>,
     <<[keys |-> <<PyInt(1), SliceAll, SliceAll, SliceAll>>, tuple |-> TRUE], "srcZ">>,
     <<[keys |-> <<>>, tuple |-> TRUE], "det">>}
ComponentOf(id) == CHOOSE c \in Components : c.id = id
LifeArgs ==
    [grid_spacing_x : {Spacing(1)}, grid_spacing_y : {Spacing(1), Spacing(2)},
     grid_spacing_z : {Spacing(1)}, shape : {<<PyInt(3), PyInt(2), PyInt(1)>>},
     grid_spacing : {DefaultGridSpacing}, courant_number : {None},
     folder : {"None"}, permittivity : {1}, permeability : {1}]

Cur == Machine(Self, frames, 0)
Registered == Len(sources) + Len(boundaries) + Len(detectors) + Len(objects)

\* the state after grid = Grid(...)
Init ==
    \E a \in LifeArgs : \E r \in {GridInit(a)} :
        /\ r.err = "none"
        /\ exists = TRUE
        /\ Start(r.g)
        /\ frames = <<>> /\ cwd = "start" /\ trace = <<>> /\ stepCalls = 0
        /\ last = Call("__init__", a, "none", 0)

\* grid.animate = v, made by the caller: no method of Grid sets it
SetAnimate(v) ==
    /\ exists /\ animate # v
    /\ animate' = v
    /\ last' = Call("animate =", v, "none", 0)
    /\ UNCHANGED <<exists, grid_spacing, grid_spacing_x, grid_spacing_y,
                   grid_spacing_z, Nx, Ny, Nz, D, courant_number, time_step, E, H,
                   dtype, inverse_permittivity, inverse_permeability, priority,
                   time_steps_passed, sources, boundaries, detectors, objects,
                   folder, folder_frames, full_sim_name, total_time, Epol,
                   frames, cwd, trace, stepCalls>>

Step(interval, renderOk) ==
    /\ exists /\ stepCalls < MaxSteps
    /\ \E m \in {DoStep(Cur, interval, renderOk)} :
           /\ Assign(m.g)
           /\ frames' = m.frames
           /\ trace' = m.trace
           /\ last' = Call("step", interval, m.err, 0)
    /\ stepCalls' = stepCalls + 1
    /\ UNCHANGED <<exists, cwd>>

Run(tt, interval, renderOk) ==
    /\ exists
    /\ \E m \in {DoRun(Cur, tt, interval, renderOk)} :
           /\ stepCalls + m.calls <= MaxSteps
           /\ Assign(m.g)
           /\ frames' = m.frames
           /\ trace' = IF m.calls > 0 THEN m.trace ELSE trace
           /\ stepCalls' = stepCalls + m.calls
           /\ last' = Call("run", [total_time |-> tt, interval |-> interval],
                           m.err, m.calls)
    /\ UNCHANGED <<exists, cwd>>

Reset ==
    /\ exists
    /\ Assign(DoReset(Self))
    /\ stepCalls' = 0
    /\ last' = Call("reset", 0, "none", 0)
    /\ UNCHANGED <<exists, frames, cwd, trace>>

Promote ==
    /\ exists /\ dtype = "float"
    /\ Assign(DoPromote(Self))
    /\ last' = Call("promote_dtypes_to_complex", 0, "none", 0)
    /\ UNCHANGED <<exists, frames, cwd, trace, stepCalls>>

\* grid[key] = c while fewer than n components are registered
SetItemWithin(n, key, c) ==
    /\ exists /\ Registered < n
    /\ \E r \in {DoSetItem(Self, key, c)} :
           /\ Assign(r.g)
           /\ last' = Call("__setitem__", [key |-> key, attr |-> c.id], r.err, 0)
    /\ UNCHANGED <<exists, frames, cwd, trace, stepCalls>>

SetItem(key, c) == SetItemWithin(MaxComponents, key, c)

SaveSimulation ==
    /\ exists /\ folder = "None"
    /\ Assign(DoSaveSimulation(Self))
    /\ last' = Call("save_simulation", 0, "none", 0)
    /\ UNCHANGED <<exists, frames, cwd, trace, stepCalls>>

SaveData ==
    /\ exists
    /\ last' = Call("save_data", 0, SaveDataErr(Self), 0)
    /\ UNCHANGED <<exists, objVars, frames, cwd, trace, stepCalls>>

GenerateVideo(delete_frames, ffmpegOk) ==
    /\ exists
    /\ \E r \in {DoGenerateVideo(Self, frames, cwd, delete_frames, ffmpegOk)} :
           /\ frames' = r.frames
           /\ cwd' = r.cwd
           /\ last' = Call("generate_video", delete_frames, r.err, 0)
    /\ UNCHANGED <<exists, objVars, trace, stepCalls>>

\* steps, resets, promotions and region assignments on a constructed grid
Next ==
    \/ SetAnimate("False")
    \/ Step(DefaultInterval, TRUE)
    \/ Reset
    \/ Promote
    \/ \E pl \in Placements : SetItem(pl[1], ComponentOf(pl[2]))

Spec == Init /\ [][Next]_vars

\* runs, frame capture and the saving collaborators on a constructed grid
NextRun ==
    \/ \E v \in {"True", "False"} : SetAnimate(v)
    \/ SetItem(SrcAt1[1], ComponentOf(SrcAt1[2]))
    \/ \E i \in Intervals, ok \in BOOLEAN : Step(i, ok)
    \/ \E tt \in Times, i \in Intervals : Run(tt, i, TRUE)
    \/ SaveSimulation
    \/ SaveData
    \/ \E del \in BOOLEAN, ok \in BOOLEAN : GenerateVideo(del, ok)

InitRun == Init /\ grid_spacing_y = 1

SpecRun == InitRun /\ [][NextRun]_vars

\* ------------------------------------------------------- the hook order
OrderPlacements ==
    {SrcAt1,
     <<[keys |-> <<PyFloat(5), PyList(<<PyInt(0)>>)>>, tuple |-> TRUE], "srcY">>,
     <<[keys |-> <<SliceAll>>, tuple |-> TRUE], "pbX">>,
     <<[keys |-> <<PyInt(0), PyInt(1)>>, tuple |-> TRUE], "det">>}

\* steps of a grid with several components of each kind registered
NextOrder ==
    \/ SetAnimate("False")
    \/ Step(DefaultInterval, TRUE)
    \/ \E pl \in OrderPlacements : SetItemWithin(MaxHooks, pl[1], ComponentOf(pl[2]))

SpecOrder == Init /\ [][NextOrder]_vars

\* ---------------------------------------------------- the frame capture
FrameTimes == {PyInt(n) : n \in 1..MaxSteps}

\* runs and steps with the frame capture enabled or disabled
NextFrames ==
    \/ \E v \in {"True", "False"} : SetAnimate(v)
    \/ SetItem(SrcAt1[1], ComponentOf(SrcAt1[2]))
    \/ SaveSimulation
    \/ \E i \in Intervals : Step(i, TRUE)
    \/ \E tt \in FrameTimes, i \in Intervals : Run(tt, i, TRUE)

SpecFrames == InitRun /\ [][NextFrames]_vars

\* ----------------------------------------------------- the conversions
Axes == {"x", "y", "z"}
Numbers == {PyInt(n) : n \in -MaxNum..MaxNum} \cup {PyFloat(n) : n \in -MaxNum..MaxNum}
Durations == {PyInt(n) : n \in 0..MaxNum} \cup {PyFloat(n) : n \in 0..MaxNum}
SliceParts == {None, PyInt(1), PyInt(-1), PyFloat(5), PyFloat(-5)}
Slices == {PySlice(a, b, c) : a \in SliceParts, b \in SliceParts, c \in SliceParts}
Lists ==
    {PyList(<<>>)} \cup {PyList(<<a>>) : a \in SliceParts \ {None}}
        \cup {PyList(<<a, b>>) : a \in {PyInt(2), PyFloat(3)}, b \in {PyFloat(-3), PyInt(0)}}
Shapes ==
    {<<PyInt(3), PyInt(1)>>, <<PyFloat(6), PyInt(2), PyFloat(-5)>>,
     <<PyInt(2), PyFloat(5), PyInt(1)>>}

\* a call that reads the grid and returns: the grid is left as it was
Query(op, arg, err, ret) ==
    /\ exists
    /\ last' = Call(op, arg, err, ret)
    /\ UNCHANGED <<exists, objVars, frames, cwd, trace, stepCalls>>

CallHandleDistance(value, axis) ==
    Query("_handle_distance", [axis |-> axis, value |-> value], "none",
          HandleDistance(Self, value, axis))

CallHandleTime(time) ==
    Query("_handle_time", [time |-> time], "none", HandleTime(Self, time))

CallHandleTuple(shape) ==
    \E r \in {HandleTuple(Self, shape)} :
        Query("_handle_tuple", [shape |-> shape], r.err, r.val)

CallHandleSlice(sl, axis) ==
    Query("_handle_slice", [axis |-> axis, s |-> sl], "none", HandleSlice(Self, sl, axis))

CallHandleSingleKey(key, axis) ==
    Query("_handle_single_key", [axis |-> axis, key |-> key], "none",
          HandleSingleKey(Self, key, axis))

\* the conversions of distances, times and keys on a constructed grid
NextConv ==
    \/ \E v \in Numbers, axis \in Axes : CallHandleDistance(v, axis)
    \/ \E t \in Durations : CallHandleTime(t)
    \/ \E shape \in Shapes : CallHandleTuple(shape)
    \/ \E sl \in Slices, axis \in Axes : CallHandleSlice(sl, axis)
    \/ \E key \in Numbers \cup Lists \cup Slices, axis \in Axes :
           CallHandleSingleKey(key, axis)

SpecConv == Init /\ [][NextConv]_vars

\* ------------------------------------------------------------ the curls
CurlShapes == {<<PyInt(3), PyInt(2), PyInt(1)>>, <<PyInt(1), PyInt(2), PyInt(2)>>}
CurlSpacings == {<<1, 1, 1>>, <<2, 2, 2>>, <<1, 2, 1>>}
CurlArgs ==
    {[grid_spacing_x |-> Spacing(sp[1]), grid_spacing_y |-> Spacing(sp[2]),
      grid_spacing_z |-> Spacing(sp[3]), shape |-> sh,
      grid_spacing |-> DefaultGridSpacing, courant_number |-> None,
      folder |-> "None", permittivity |-> 1, permeability |-> 1] :
         sp \in CurlSpacings, sh \in CurlShapes}
FieldValues == {1, MaxMag}
Written == Cardinality({e \in DOMAIN E : E[e] # 0})

\* the state after grid = Grid(...), for the shapes and spacings of the curls
InitCurl ==
    \E a \in CurlArgs : \E r \in {GridInit(a)} :
        /\ r.err = "none"
        /\ exists = TRUE
        /\ Start(r.g)
        /\ frames = <<>> /\ cwd = "start" /\ trace = <<>> /\ stepCalls = 0
        /\ last = Call("__init__", a, "none", 0)

\* grid.E[e] = v, made by the caller
WriteE(e, v) ==
    /\ exists /\ Written < MaxWrites /\ E[e] = 0
    /\ E' = [E EXCEPT ![e] = v]
    /\ last' = Call("E[e] =", 0, "none", 0)
    /\ UNCHANGED <<exists, grid_spacing, grid_spacing_x, grid_spacing_y,
                   grid_spacing_z, Nx, Ny, Nz, D, courant_number, time_step, H,
                   dtype, inverse_permittivity, inverse_permeability, priority,
                   time_steps_passed, sources, boundaries, detectors, objects,
                   folder, animate, folder_frames, full_sim_name, total_time,
                   Epol, frames, cwd, trace, stepCalls>>

CallCurlE == Query("curl_E", 0, "none", CurlE(Self, E))
CallCurlENonuniform ==
    Query("curl_E_with_nonuniform_grid", 0, "none", CurlENonuniform(Self, E))
CallCurlH == Query("curl_H", 0, "none", CurlH(Self, E))
CallCurlHNonuniform ==
    Query("curl_H_with_nonuniform_grid", 0, "none", CurlHNonuniform(Self, E))

\* the four curls of the tensor grid.E, as the caller has written it
NextCurl ==
    \/ \E e \in DOMAIN E, v \in FieldValues : WriteE(e, v)
    \/ CallCurlE
    \/ CallCurlENonuniform
    \/ CallCurlH
    \/ CallCurlHNonuniform

SpecCurl == InitCurl /\ [][NextCurl]_vars

\* ------------------------------------------------- claims: construction
\* a shape of three integer sizes, each at least 1, and its dimension
IntShape(shape) ==
    /\ Len(shape) = 3
    /\ \A i \in 1..3 : shape[i].t = "int" /\ shape[i].v >= 1
Dims(shape) == Active(shape[1].v) + Active(shape[2].v) + Active(shape[3].v)

\* C1: for every shape with sizes >= 1 and D axes of size > 1, constructing
\* with an explicit courant_number > D^-0.5 fails with ValueError and yields no
\* Grid, and constructing with courant_number omitted succeeds with
\* courant_number = 0.99 * D^-0.5.
C1_CourantBound ==
    (last.op = "__init__" /\ IntShape(last.arg.shape)) =>
        LET d == Dims(last.arg.shape)
            cn == last.arg.courant_number
        IN  /\ (cn # None /\ cn.v > 0 /\ cn.v * cn.v * d > 10000) =>
                   (last.err = "ValueError" /\ ~exists)
            /\ (cn = None) =>
                   (/\ last.err = "none" /\ exists
                    /\ courant_number = [h |-> 99, rootD |-> d])

\* C2: constructing with only a shape (no per-axis spacing, no courant
\* number) succeeds; every per-axis spacing is the default grid_spacing, D is
\* the number of axes of size > 1 and
\* time_step = 0.99 / (c * sqrt(sum over those axes of 1/spacing^2)).
C2_ShapeOnly ==
    (/\ last.op = "__init__" /\ IntShape(last.arg.shape)
     /\ Dims(last.arg.shape) >= 1
     /\ last.arg.grid_spacing_x = None /\ last.arg.grid_spacing_y = None
     /\ last.arg.grid_spacing_z = None /\ last.arg.courant_number = None) =>
        LET sh == last.arg.shape
            gs == last.arg.grid_spacing
        IN  /\ last.err = "none" /\ exists
            /\ grid_spacing_x = gs /\ grid_spacing_y = gs /\ grid_spacing_z = gs
            /\ D = Dims(sh)
            /\ time_step = [S |-> Dims(sh) * gs * gs, f |-> 99]

\* ---------------------------------------------------- claims: lifecycle
AllZero(F) == \A e \in DOMAIN F : F[e] = 0

\* C3: on a constructed grid every call to step() completes and adds exactly
\* 1 to time_steps_passed, so that time_steps_passed is the number of step()
\* calls made since construction or since the last reset().
C3_StepCounts ==
    /\ (last.op = "step" => last.err = "none")
    /\ time_steps_passed = stepCalls

\* C4: after reset() every entry of E and of H is zero and
\* time_steps_passed = 0, while the geometry, the material tensors and the
\* registered components are what they were before the call.
C4_ResetZeroes ==
    [][last'.op = "reset" =>
          /\ AllZero(E') /\ AllZero(H') /\ time_steps_passed' = 0
          /\ UNCHANGED <<Nx, Ny, Nz, grid_spacing_x, grid_spacing_y, grid_spacing_z,
                         courant_number, time_step, inverse_permittivity,
                         inverse_permeability, priority, sources, boundaries,
                         detectors, objects>>]_vars

\* C5: run(t) calls step() t times for an integer t, and for a float t as
\* many times as _handle_time(t) returns: t / time_step rounded half up.
C5_RunSteps ==
    (last.op = "run" /\ last.err = "none") =>
        last.ret = HandleTime(Self, last.arg.total_time)

\* a step from all-zero fields with one source, on one x index, and no boundary
OneSourceStep ==
    /\ last'.op = "step" /\ last'.err = "none" /\ stepCalls' = stepCalls + 1
    /\ AllZero(E) /\ AllZero(H)
    /\ Len(sources) = 1 /\ Len(boundaries) = 0
    /\ sources[1].x.t = "list" /\ Len(sources[1].x.items) = 1
SourceIndex == sources[1].x.items[1]

\* C6 as stated: after one step from zero fields with a single source at x
\* index s, every entry of E and of H whose x index is not s, or whose
\* polarization is not the source's, is still zero.
C6_OnlySourceIndex ==
    [][OneSourceStep =>
          /\ \A e \in DOMAIN E' :
                 (e[1] # SourceIndex \/ e[4] # sources[1].c.pol) => E'[e] = 0
          /\ \A e \in DOMAIN H' :
                 (e[1] # SourceIndex \/ e[4] # sources[1].c.pol) => H'[e] = 0]_vars

\* C6, amended: after one step from zero fields with a single source at x
\* index s, every entry of E whose x index is not s or whose polarization is
\* not the source's is still zero, and every entry of H whose x index is
\* neither s - 1 nor s is still zero.
C6_SourceAndNeighbour ==
    [][OneSourceStep =>
          /\ \A e \in DOMAIN E' :
                 (e[1] # SourceIndex \/ e[4] # sources[1].c.pol) => E'[e] = 0
          /\ \A e \in DOMAIN H' :
                 e[1] \notin {SourceIndex - 1, SourceIndex} => H'[e] = 0]_vars

\* one step has run from zero fields with the single source at x index 1: E
\* holds the injection at index 1, H is changed at index 0 and not at index 2
C6_Witness ==
    /\ last.op = "step" /\ last.err = "none" /\ stepCalls = 1
    /\ Len(sources) = 1 /\ Len(boundaries) = 0
    /\ sources[1].x = PyList(<<1>>)
    /\ \E e \in DOMAIN E : e[1] = 1 /\ E[e] = sources[1].c.ampE
    /\ \A e \in DOMAIN E : e[1] # 1 => E[e] = 0
    /\ \E e \in DOMAIN H : e[1] = 0 /\ H[e] # 0
    /\ \A e \in DOMAIN H : e[1] = 2 => H[e] = 0

\* C7: grid[key] = component with more than 3 axis keys fails with KeyError
\* and changes no attribute of the grid, no collection and no hook trace.
C7_TooManyKeys ==
    [][(/\ last'.op = "__setitem__" /\ last'.arg.key.tuple
        /\ Len(last'.arg.key.keys) > 3) =>
          /\ last'.err = "KeyError"
          /\ UNCHANGED <<exists, objVars, frames, cwd, trace, stepCalls>>]_vars

\* an assignment with 4 axis keys has been refused
C7_Witness ==
    /\ last.op = "__setitem__" /\ last.arg.key.tuple
    /\ Len(last.arg.key.keys) = 4
    /\ last.err = "KeyError"
    /\ Registered = 0

\* the failures of the frame capture
FrameErrors == {"IndexError: sources[0]", "AttributeError: folder_frames", "savefig failed"}

\* C8: when the frame capture inside step(), generate_video or save_data
\* fails, E, H and time_steps_passed keep the values they had before the call.
C8_FailureKeepsFields ==
    [][(\/ last'.op \in {"step", "run"} /\ last'.err \in FrameErrors
        \/ last'.op \in {"generate_video", "save_data"} /\ last'.err # "none") =>
          UNCHANGED <<E, H, time_steps_passed>>]_vars

\* -------------------------------------------------- claims: conversions
\* C9: _handle_distance returns an integer unchanged and any other value v as
\* floor(v / spacing + 1/2), for negative values as for positive ones.
C9_RoundHalfUp ==
    last.op = "_handle_distance" =>
        last.ret =
            IF last.arg.value.t = "int" THEN last.arg.value.v
            ELSE (2 * last.arg.value.v * SpacingOf(Self, last.arg.axis) + FloatDen)
                     \div (2 * FloatDen)

\* the index of a key component as a Python value, None staying None
IndexOf(c, axis) == IF c = None THEN None ELSE PyInt(HandleDistance(Self, c, axis))
\* a list key and a slice key are normalized component by component
ListAndSliceNormalized ==
    LET key == last.arg.key
        axis == last.arg.axis
        r == last.ret
    IN  /\ key.t = "list" =>
              /\ r.t = "list" /\ Len(r.items) = Len(key.items)
              /\ \A i \in 1..Len(key.items) :
                     r.items[i] = HandleDistance(Self, key.items[i], axis)
        /\ key.t = "slice" =>
              /\ r.t = "slice"
              /\ r.start = IndexOf(key.start, axis)
              /\ r.stop = IndexOf(key.stop, axis)
              /\ r.step = IndexOf(key.step, axis)

\* C10 as stated: _handle_single_key maps a scalar key to a single integer
\* index, a list of scalars to the list of their indices and a slice to the
\* slice of the indices of its present components.
C10_ScalarToIndex ==
    last.op = "_handle_single_key" =>
        /\ last.arg.key.t \in {"int", "float"} =>
              /\ last.ret.t = "int"
              /\ last.ret.v = HandleDistance(Self, last.arg.key, last.arg.axis)
        /\ ListAndSliceNormalized

\* C10, amended: _handle_single_key maps a scalar key to a list holding the
\* one index of the scalar, a list of scalars to the list of their indices and
\* a slice to the slice of the indices of its present components.
C10_ScalarToList ==
    last.op = "_handle_single_key" =>
        /\ last.arg.key.t \in {"int", "float"} =>
              last.ret = PyList(<<HandleDistance(Self, last.arg.key, last.arg.axis)>>)
        /\ ListAndSliceNormalized

\* a float scalar key has been normalized to the list of its one index
C10_Witness ==
    /\ last.op = "_handle_single_key"
    /\ last.arg.key.t = "float"
    /\ last.ret.t = "list"
    /\ Len(last.ret.items) = 1
    /\ last.ret.items[1] # 0

\* -------------------------------------------------------- claims: curls
\* every axis has the spacing 1/k
EqualSpacing == grid_spacing_x = grid_spacing_y /\ grid_spacing_y = grid_spacing_z
\* the curl C divided by the spacing 1/k
Scaled(C, k) == [e \in DOMAIN C |-> FMul(C[e], k)]
\* the entry next to e along an axis (1, 2, 3), d away
Shift(e, axis, d) == [e EXCEPT ![axis] = @ + d]
\* no two-point difference of F divided by the spacing 1/k overflows
DifferencesFinite(F, k) ==
    \A e \in DOMAIN F, axis \in 1..3 :
        Shift(e, axis, 1) \in DOMAIN F =>
            FMul(FSub(F[Shift(e, axis, 1)], F[e]), k) \in -MaxMag..MaxMag

AxisSize(axis) == IF axis = 1 THEN Nx ELSE IF axis = 2 THEN Ny ELSE Nz
\* the entry of cell e for polarization p
Pol(e, p) == [e EXCEPT ![4] = p]
\* the term of curl_E at e along an axis for polarization p: F[i+1] - F[i], or
\* 0 at the last index of the axis
TermE(F, e, axis, p) ==
    IF e[axis] = AxisSize(axis) - 1 THEN 0
    ELSE FSub(F[Pol(Shift(e, axis, 1), p)], F[Pol(e, p)])
\* the term of curl_H: F[i] - F[i-1], or 0 at index 0 of the axis
TermH(F, e, axis, p) ==
    IF e[axis] = 0 THEN 0
    ELSE FSub(F[Pol(e, p)], F[Pol(Shift(e, axis, -1), p)])
\* the stencil: polarization 0 is d/dy of 2 minus d/dz of 1, and cyclically
StencilE(F, e) ==
    CASE e[4] = 0 -> FSub(TermE(F, e, 2, 2), TermE(F, e, 3, 1))
      [] e[4] = 1 -> FSub(TermE(F, e, 3, 0), TermE(F, e, 1, 2))
      [] e[4] = 2 -> FSub(TermE(F, e, 1, 1), TermE(F, e, 2, 0))
StencilH(F, e) ==
    CASE e[4] = 0 -> FSub(TermH(F, e, 2, 2), TermH(F, e, 3, 1))
      [] e[4] = 1 -> FSub(TermH(F, e, 3, 0), TermH(F, e, 1, 2))
      [] e[4] = 2 -> FSub(TermH(F, e, 1, 1), TermH(F, e, 2, 0))

\* C14: the curls never wrap around: a difference term of curl_E is 0 at the
\* last index of its axis, one of curl_H is 0 at index 0 of its axis, and
\* everywhere else each term is the two-point difference of the stencil; so
\* along an axis of size 1 every term is 0.
C14_NoWrap ==
    /\ last.op = "curl_E" => \A e \in DOMAIN E : last.ret[e] = StencilE(E, e)
    /\ last.op = "curl_H" => \A e \in DOMAIN E : last.ret[e] = StencilH(E, e)

\* curl_E has been taken of a field that is nonzero in the last x layer of a
\* grid of 3 layers: the result is zero in that layer's x terms and nonzero
\* in the layer before
C14_Witness ==
    /\ last.op = "curl_E" /\ Nx = 3 /\ Nz = 1
    /\ E[<<2, 0, 0, 2>>] # 0 /\ E[<<2, 1, 0, 2>>] = E[<<2, 0, 0, 2>>]
    /\ Written = MaxWrites
    /\ last.ret[<<2, 0, 0, 1>>] = 0
    /\ last.ret[<<1, 0, 0, 1>>] # 0

\* ------------------------------------------------ claims: order of a step
\* the calls of one hook on a collection, in registration order
InOrder(hook, coll) == [q \in 1..Len(coll) |-> <<hook, coll[q].c.id>>]
Grid(what) == <<<<what, "grid">>>>

\* C12: within every step() the calls are, in this order: every boundary's
\* update_phi_E, the E update, every boundary's update_E, every source's
\* update_E, every detector's detect_E, then the same for H with the H update
\* taken from the E already updated, each collection in registration order,
\* and only then time_steps_passed is incremented (a step that raises after
\* the updates leaves the counter as it was).
C12_StepOrder ==
    [][(last'.op = "step" /\ stepCalls' = stepCalls + 1) =>
          /\ trace' = InOrder("update_phi_E", boundaries) \o Grid("E += curl_H(H)")
                 \o InOrder("update_E", boundaries) \o InOrder("update_E", sources)
                 \o InOrder("detect_E", detectors)
                 \o InOrder("update_phi_H", boundaries) \o Grid("H -= curl_E(E)")
                 \o InOrder("update_H", boundaries) \o InOrder("update_H", sources)
                 \o InOrder("detect_H", detectors)
                 \o (IF last'.err = "none" THEN Grid("time_steps_passed += 1")
                     ELSE <<>>)
          /\ E' = UpdateE(Self)
          /\ H' = UpdateH([Self EXCEPT !.E = E'])
          /\ time_steps_passed' =
                 time_steps_passed + (IF last'.err = "none" THEN 1 ELSE 0)]_vars

\* a step has completed with a boundary and two different sources registered
C12_Witness ==
    /\ last.op = "step" /\ last.err = "none"
    /\ Len(boundaries) = 1 /\ Len(sources) = 2
    /\ sources[1].c.id = "srcY" /\ sources[2].c.id = "srcZ"
    /\ trace[4] = <<"update_E", "srcY">> /\ trace[5] = <<"update_E", "srcZ">>
    /\ \E e \in DOMAIN H : H[e] # 0

\* --------------------------------------------- claims: the frame capture
\* the counters 0, interval, 2 interval, ... below n
Multiples(n, interval) ==
    [q \in 1..((n + interval - 1) \div interval) |-> (q - 1) * interval]

\* C13: with the capture enabled a completed run of N steps started at
\* time_steps_passed = 0 calls save_frame in exactly the steps whose counter
\* before the increment is a multiple of interval, ceil(N / interval) times;
\* in a step the call comes after the updates of E and H and before the
\* increment; with the capture disabled save_frame is never called.
C13_FrameEveryInterval ==
    [][/\ (/\ last'.op = "run" /\ last'.err = "none"
           /\ stepCalls' = stepCalls + last'.ret /\ time_steps_passed = 0) =>
              /\ animate = "True" =>
                     frames' = Multiples(last'.ret, last'.arg.interval)
              /\ animate = "False" => frames' = frames
       /\ (last'.op = "step" /\ last'.err = "none" /\ stepCalls' = stepCalls + 1) =>
              IF animate = "True" /\ time_steps_passed % last'.arg = 0
              THEN /\ frames' = Append(frames, time_steps_passed)
                   /\ trace'[Len(trace') - 2] = <<"H -= curl_E(E)", "grid">>
                      \/ trace'[Len(trace') - 2][1] \in {"update_H", "detect_H"}
                   /\ trace'[Len(trace') - 1] = <<"save_frame", "grid">>
                   /\ trace'[Len(trace')] = <<"time_steps_passed += 1", "grid">>
              ELSE /\ frames' = frames
                   /\ \A q \in 1..Len(trace') : trace'[q][1] # "save_frame"]_vars

\* a run of 3 steps with interval 2 and the capture enabled has saved the
\* frames of the counters 0 and 2
C13_Witness ==
    /\ last.op = "run" /\ last.err = "none" /\ last.ret = 3
    /\ last.arg.interval = 2
    /\ animate = "True"
    /\ time_steps_passed = 3
    /\ frames = <<0, 2>>
====
